---- MODULE Spec2Model ----
(***************************************************************************)
(* A model of fastapi_challenge/main.py: the five routes of the portfolio  *)
(* service, the slowapi limiter that decorates two of them, and the        *)
(* exception handlers.  Python strings are sequences of one-character      *)
(* strings; an Optional value is either None or a tagged string/list.      *)
(***************************************************************************)
EXTENDS Integers, Sequences, FiniteSets, TLC

VARIABLES
    store,      \* the limiter's in-memory storage: key -> [count, ttl]
    windowAge,  \* observation: seconds since the first hit of a key's live window
    req,        \* the request handled last
    resp        \* the response sent for it

vars == <<store, windowAge, req, resp>>

(***************************************************************************)
(* Values                                                                  *)
(***************************************************************************)
None == [tag |-> "None"]

Str(s) == [tag |-> "str", val |-> s]

List(l) == [tag |-> "list", val |-> l]

\* a JSON value that is neither a string, a list nor null
Obj == [tag |-> "object"]

Empty == << >>

Anonymous == <<"A","n","o","n","y","m","o","u","s">>

NotSpecified == <<"N","o","t"," ","S","p","e","c","i","f","i","e","d">>

NotProvided == <<"N","o","t"," ","P","r","o","v","i","d","e","d">>

\* Python truthiness of an Optional[str]: None and "" are falsy
Truthy(x) == x # None /\ x # Str(Empty)

\* x if x is not None else d
OrElseNotNone(x, d) == IF x # None THEN x ELSE d

\* x or d
OrElse(x, d) == IF Truthy(x) THEN x ELSE d

LowerChar(ch) ==
    CASE ch = "B" -> "b"
      [] ch = "O" -> "o"
      [] ch = "T" -> "t"
      [] OTHER -> ch

\* str.lower()
Lower(s) == [i \in DOMAIN s |-> LowerChar(s[i])]

\* sub in s
Contains(sub, s) ==
    \E i \in 0..(Len(s) - Len(sub)) : SubSeq(s, i + 1, i + Len(sub)) = sub

\* index of the first "," of s, 0 when there is none
FirstComma(s) ==
    IF \E i \in DOMAIN s : s[i] = ","
    THEN CHOOSE i \in DOMAIN s : s[i] = "," /\ \A j \in 1..(i - 1) : s[j] # ","
    ELSE 0

RECURSIVE Split(_)
\* s.split(",")
Split(s) ==
    LET i == FirstComma(s) IN
    IF i = 0 THEN <<s>>
    ELSE <<SubSeq(s, 1, i - 1)>> \o Split(SubSeq(s, i + 1, Len(s)))

RECURSIVE Join(_)
\* ",".join(l)
Join(l) ==
    IF Len(l) = 0 THEN Empty
    ELSE IF Len(l) = 1 THEN l[1]
    ELSE l[1] \o <<",">> \o Join(Tail(l))

(***************************************************************************)
(* Bounds and input sets                                                   *)
(***************************************************************************)
\* how far past its limit a counter is followed
MaxExcess == 1

\* longest User-Agent drawn
MaxAgentLen == 4

\* longest hobbies string drawn
MaxHobbiesLen == 3

Clients == {"10.0.0.1", "10.0.0.2"}

SeqsUpTo(S, n) == UNION {[1..m -> S] : m \in 0..n}

AgentChars == {"b", "B", "o", "O", "t", "T", "-"}

HobbyChars == {",", "a", " "}

FieldValues == {None, Str(Empty), Str(<<"x">>)}

Agents == {None} \cup {Str(s) : s \in SeqsUpTo(AgentChars, MaxAgentLen)}

HobbyValues == {None} \cup {Str(s) : s \in SeqsUpTo(HobbyChars, MaxHobbiesLen)}

\* every combination of the six string fields, and every hobbies string
Queries ==
    [name : FieldValues, school : FieldValues, major : FieldValues,
     minor : FieldValues, linkedin : FieldValues, github : FieldValues,
     hobbies : {None, Str(<<"a", ",", " ">>)}]
    \cup
    [name : {None, Str(<<"x">>)}, school : {None}, major : {None},
     minor : {None}, linkedin : {None}, github : {None}, hobbies : HobbyValues]

Bodies ==
    [name : FieldValues, school : FieldValues, major : FieldValues,
     minor : FieldValues, linkedin : FieldValues, github : FieldValues,
     hobbies : {None, List(Empty), List(<<Empty, <<"a">>, <<" ", "a">>>>), Obj}]

EmptyQuery ==
    [name |-> None, school |-> None, major |-> None, minor |-> None,
     hobbies |-> None, linkedin |-> None, github |-> None]

FullQuery ==
    [name |-> Str(<<"x">>), school |-> Str(<<"x">>), major |-> Str(<<"x">>),
     minor |-> Str(Empty), hobbies |-> Str(<<"a", ",", " ">>),
     linkedin |-> Str(<<"x">>), github |-> None]

Bot == Str(<<"-", "B", "o", "T">>)

\* <<query, User-Agent>> of the GET /portfolio requests drawn by Spec
SmallGets == {<<EmptyQuery, None>>, <<EmptyQuery, Bot>>, <<FullQuery, Str(<<"-">>)>>}

\* <<query, User-Agent>> of the requests to the other GET routes
OtherGets == {<<EmptyQuery, None>>, <<FullQuery, Bot>>}

\* <<query, User-Agent>> of the GET /portfolio requests drawn by SpecGet
AllGets ==
    {<<q, None>> : q \in Queries} \cup {<<EmptyQuery, ua>> : ua \in Agents}

FullBody ==
    [name |-> Str(<<"x">>), school |-> Str(<<"x">>), major |-> Str(<<"x">>),
     minor |-> None, hobbies |-> None, linkedin |-> Str(<<"x">>), github |-> None]

SmallBodies ==
    {FullBody, [FullBody EXCEPT !.major = None], [FullBody EXCEPT !.hobbies = Obj]}

(***************************************************************************)
(* The limiter: Limiter(key_func=get_remote_address), whose defaults are   *)
(* the fixed-window strategy over the in-memory storage.                   *)
(***************************************************************************)
\* "10/minute"
PostLimit == 10

PostWindow == 60

\* the limit string of the POST route pasted on the GET route
GetLimitPasted == PostLimit

\* "5/minute"
GetLimit == 5

\* "5/hour"
GetWindowHour == 60 * 60

GetWindow == 60

\* a key function that ignores the request
KeyFuncConstant(c) == "127.0.0.1"

\* get_remote_address(request)
KeyFunc(c) == c

\* the storage key of one limit of one route for one request
LimitKey(c, path, amount) == <<KeyFunc(c), path, amount>>

Keys == {LimitKey(c, "/portfolio", n) : c \in Clients, n \in {GetLimit, PostLimit}}

NoEntry == [count |-> 0, ttl |-> 0]

\* the counter a key holds now: an expired or absent key counts 0
StorageGet(st, k) == IF st[k].ttl = 0 THEN 0 ELSE st[k].count

\* storage.incr(key, expiry): the expiry is set by the first hit of a window only
StorageIncr(st, k, expiry) ==
    LET new == StorageGet(st, k) + 1 IN
    [st EXCEPT ![k] = [count |-> new,
                       ttl |-> IF new = 1 THEN expiry ELSE st[k].ttl]]

\* limiter.hit(item, key): increment, then compare with the amount
Hit(st, k, amount, expiry) ==
    LET st2 == StorageIncr(st, k, expiry) IN
    [ok |-> st2[k].count <= amount, hits |-> st2[k].count, store |-> st2]

\* the observation of a key's window age after a hit
AgeAfterHit(k) ==
    [windowAge EXCEPT ![k] = IF StorageGet(store, k) = 0 THEN 0 ELSE @]

(***************************************************************************)
(* Responses                                                               *)
(***************************************************************************)
NoHeaders == {}

Request(c, method, path, q, ua, body) ==
    [client |-> c, method |-> method, path |-> path, query |-> q,
     ua |-> ua, body |-> body]

\* ran: the route function's body was executed; hits: what the limiter's
\* increment returned, 0 when the limiter was not consulted
Response(status, body, headers, ran, hits) ==
    [status |-> status, body |-> body, headers |-> headers, ran |-> ran,
     hits |-> hits]

\* raise HTTPException(status_code, detail), answered by the framework's own
\* handler for HTTPException
HTTPException(status, detail, hits) ==
    Response(status, [detail |-> detail], NoHeaders, TRUE, hits)

\* the framework's answer to a body that does not validate against Portfolio
ValidationError ==
    Response(422, [detail |-> "validation error"], NoHeaders, FALSE, 0)

RateLimitExceededHandler(hits) ==
    Response(429, [message |-> "Rate limit exceeded. Please try again later."],
             NoHeaders, FALSE, hits)

GlobalExceptionHandler ==
    Response(500,
             [message |-> "An internal server error occurred. Please try again later."],
             NoHeaders, TRUE, 0)

\* class Portfolio(BaseModel): every field Optional, str or List[str]
ValidPortfolio(b) ==
    /\ \A f \in {"name", "school", "major", "minor", "linkedin", "github"} :
          b[f].tag \in {"None", "str"}
    /\ b.hobbies.tag \in {"None", "list"}

\* user_agent and "bot" in user_agent
IsBotCaseSensitive(ua) == Truthy(ua) /\ Contains(<<"b", "o", "t">>, ua.val)

\* user_agent and "bot" in user_agent.lower()
IsBot(ua) == Truthy(ua) /\ Contains(<<"b", "o", "t">>, Lower(ua.val))

\* hobbies.split(",") if hobbies else []
HobbiesList(hobbies) == IF Truthy(hobbies) THEN Split(hobbies.val) ELSE Empty

GetData(q) ==
    [name |-> OrElse(q.name, Str(Anonymous)),
     school |-> OrElse(q.school, Str(NotSpecified)),
     major |-> OrElse(q.major, Str(NotSpecified)),
     minor |-> OrElse(q.minor, Str(NotSpecified)),
     hobbies |-> List(HobbiesList(q.hobbies)),
     linkedin |-> OrElse(q.linkedin, Str(NotProvided)),
     github |-> OrElse(q.github, Str(NotProvided))]

\* the body of submit_details_get
GetBody(q, ua, hits) ==
    IF IsBot(ua)
    THEN HTTPException(403, "Bots are not allowed", hits)
    ELSE Response(200,
                  [message |-> "GET request received successfully!",
                   data |-> GetData(q)],
                  {<<"X-Robots-Tag", "noindex, nofollow">>}, TRUE, hits)

\* not details.name or not details.school
MissingRequiredNoMajor(b) == ~Truthy(b.name) \/ ~Truthy(b.school)

\* not details.name or not details.school or not details.major
MissingRequired(b) == ~Truthy(b.name) \/ ~Truthy(b.school) \/ ~Truthy(b.major)

PostData(b) ==
    [name |-> b.name, school |-> b.school, major |-> b.major, minor |-> b.minor,
     hobbies |-> b.hobbies, linkedin |-> b.linkedin, github |-> b.github]

\* the body of submit_details
PostBody(b, hits) ==
    IF MissingRequired(b)
    THEN HTTPException(400, "Name, school, and major are required fields.", hits)
    ELSE Response(200,
                  [message |-> "Details received successfully!",
                   data |-> PostData(b)],
                  NoHeaders, TRUE, hits)

(***************************************************************************)
(* The state machine                                                       *)
(***************************************************************************)
\* the response as observed by the client: retry tells that the request
\* handled just before was the same client's to the same route and got a 429
Observed(c, method, path, r) ==
    [status |-> r.status, body |-> r.body, headers |-> r.headers,
     ran |-> r.ran, hits |-> r.hits,
     retry |-> /\ resp.status = 429
               /\ req.client = c /\ req.method = method /\ req.path = path]

NoResponse ==
    [status |-> 0, body |-> [none |-> TRUE], headers |-> NoHeaders,
     ran |-> FALSE, hits |-> 0, retry |-> FALSE]

Init ==
    /\ store = [k \in Keys |-> NoEntry]
    /\ windowAge = [k \in Keys |-> 0]
    /\ req = Request("10.0.0.1", "NONE", "", EmptyQuery, None, None)
    /\ resp = NoResponse

\* @app.get("/")
RedirectToMainPage(c, q, ua) ==
    /\ req' = Request(c, "GET", "/", q, ua, None)
    /\ resp' = Observed(c, "GET", "/",
                        Response(307, [none |-> TRUE],
                                 {<<"location", "/portfolio">>}, TRUE, 0))
    /\ UNCHANGED <<store, windowAge>>

\* the bot check moved in front of the limiter
SubmitDetailsGetBotFirst(c, q, ua) ==
    LET k == LimitKey(c, "/portfolio", GetLimit)
        h == Hit(store, k, GetLimit, GetWindow)
    IN  /\ StorageGet(store, k) < GetLimit + MaxExcess
        /\ req' = Request(c, "GET", "/portfolio", q, ua, None)
        /\ IF IsBot(ua)
           THEN /\ resp' = Observed(c, "GET", "/portfolio", GetBody(q, ua, 0))
                /\ UNCHANGED <<store, windowAge>>
           ELSE /\ store' = h.store
                /\ windowAge' = AgeAfterHit(k)
                /\ resp' = Observed(c, "GET", "/portfolio",
                                    IF h.ok THEN GetBody(q, ua, h.hits)
                                    ELSE RateLimitExceededHandler(h.hits))

\* @app.get("/portfolio") @limiter.limit("5/minute"): the limiter's wrapper
\* checks the limit, then calls the route function
SubmitDetailsGet(c, q, ua) ==
    LET k == LimitKey(c, "/portfolio", GetLimit)
        h == Hit(store, k, GetLimit, GetWindow)
    IN  /\ StorageGet(store, k) < GetLimit + MaxExcess
        /\ req' = Request(c, "GET", "/portfolio", q, ua, None)
        /\ store' = h.store
        /\ windowAge' = AgeAfterHit(k)
        /\ resp' = Observed(c, "GET", "/portfolio",
                            IF h.ok THEN GetBody(q, ua, h.hits)
                            ELSE RateLimitExceededHandler(h.hits))

\* @app.post("/portfolio") @limiter.limit("10/minute"): the body is validated
\* before the wrapper is called
SubmitDetails(c, ua, b) ==
    LET k == LimitKey(c, "/portfolio", PostLimit)
        h == Hit(store, k, PostLimit, PostWindow)
    IN  /\ req' = Request(c, "POST", "/portfolio", EmptyQuery, ua, b)
        /\ IF ~ValidPortfolio(b)
           THEN /\ resp' = Observed(c, "POST", "/portfolio", ValidationError)
                /\ UNCHANGED <<store, windowAge>>
           ELSE /\ StorageGet(store, k) < PostLimit + MaxExcess
                /\ store' = h.store
                /\ windowAge' = AgeAfterHit(k)
                /\ resp' = Observed(c, "POST", "/portfolio",
                                    IF h.ok THEN PostBody(b, h.hits)
                                    ELSE RateLimitExceededHandler(h.hits))

\* the route decorated with the GET /portfolio limit
SubmitDetailsV1Limited(c, q, ua) ==
    LET k == LimitKey(c, "/portfolio", GetLimit)
        h == Hit(store, k, GetLimit, GetWindow)
    IN  /\ StorageGet(store, k) < GetLimit + MaxExcess
        /\ req' = Request(c, "GET", "/v1/portfolio", q, ua, None)
        /\ store' = h.store
        /\ windowAge' = AgeAfterHit(k)
        /\ resp' = Observed(c, "GET", "/v1/portfolio",
                            IF h.ok
                            THEN Response(200, [message |-> "API Version 1"],
                                          NoHeaders, TRUE, h.hits)
                            ELSE RateLimitExceededHandler(h.hits))

\* @app.get("/v1/portfolio")
SubmitDetailsV1(c, q, ua) ==
    /\ req' = Request(c, "GET", "/v1/portfolio", q, ua, None)
    /\ resp' = Observed(c, "GET", "/v1/portfolio",
                        Response(200, [message |-> "API Version 1"],
                                 NoHeaders, TRUE, 0))
    /\ UNCHANGED <<store, windowAge>>

\* @app.get("/v2/portfolio")
SubmitDetailsV2(c, q, ua) ==
    /\ req' = Request(c, "GET", "/v2/portfolio", q, ua, None)
    /\ resp' = Observed(c, "GET", "/v2/portfolio",
                        Response(200,
                                 [message |-> "API Version 2 with improved features!"],
                                 NoHeaders, TRUE, 0))
    /\ UNCHANGED <<store, windowAge>>

Min(a, b) == IF a < b THEN a ELSE b

\* d seconds pass: the storage drops the keys whose expiry is reached
Tick(d) ==
    /\ \E k \in Keys : store[k].ttl > 0
    /\ store' = [k \in Keys |->
                    IF store[k].ttl <= d THEN NoEntry
                    ELSE [store[k] EXCEPT !.ttl = @ - d]]
    /\ windowAge' = [k \in Keys |->
                        IF store[k].ttl <= d THEN 0
                        ELSE Min(windowAge[k] + d, 60)]
    /\ UNCHANGED <<req, resp>>

Next ==
    \/ \E c \in Clients, g \in OtherGets : RedirectToMainPage(c, g[1], g[2])
    \/ \E c \in Clients, g \in SmallGets : SubmitDetailsGet(c, g[1], g[2])
    \/ \E c \in Clients, b \in SmallBodies : SubmitDetails(c, None, b)
    \/ \E c \in Clients, g \in OtherGets : SubmitDetailsV1(c, g[1], g[2])
    \/ \E c \in Clients, g \in OtherGets : SubmitDetailsV2(c, g[1], g[2])
    \/ Tick(60)

Spec == Init /\ [][Next]_vars

\* one client repeating one GET /portfolio request, drawn from every query
\* and User-Agent
InitGet ==
    /\ store = [k \in Keys |-> NoEntry]
    /\ windowAge = [k \in Keys |-> 0]
    /\ req \in {Request("10.0.0.1", "NONE", "", g[1], g[2], None) : g \in AllGets}
    /\ resp = NoResponse

NextGet ==
    \/ SubmitDetailsGet(req.client, req.query, req.ua)
    \/ Tick(60)

SpecGet == InitGet /\ [][NextGet]_vars

\* one client repeating one POST /portfolio request, drawn from every body
InitPost ==
    /\ store = [k \in Keys |-> NoEntry]
    /\ windowAge = [k \in Keys |-> 0]
    /\ req \in {Request("10.0.0.1", "NONE", "", EmptyQuery, None, b) : b \in Bodies}
    /\ resp = NoResponse

NextPost ==
    \/ SubmitDetails(req.client, req.ua, req.body)
    \/ Tick(60)

SpecPost == InitPost /\ [][NextPost]_vars

\* the <<client, method>> pairs that keep requesting: one client on
\* GET /portfolio while the other is on POST /portfolio
LiveRequests == {<<"10.0.0.1", "GET">>, <<"10.0.0.2", "POST">>}

LiveGet(c) == <<c, "GET">> \in LiveRequests /\ SubmitDetailsGet(c, EmptyQuery, None)

LivePost(c) == <<c, "POST">> \in LiveRequests /\ SubmitDetails(c, None, FullBody)

LiveTick == \E d \in {30, 60} : Tick(d)

NextLive ==
    \/ \E c \in Clients : LiveGet(c)
    \/ \E c \in Clients : LivePost(c)
    \/ LiveTick

\* the clock keeps advancing and every client keeps requesting
SpecLive ==
    /\ Init /\ [][NextLive]_vars
    /\ WF_vars(LiveTick)
    /\ \A c \in Clients : WF_vars(LiveGet(c))
    /\ \A c \in Clients : WF_vars(LivePost(c))

(***************************************************************************)
(* Properties                                                              *)
(***************************************************************************)
IsGetPortfolio == req.method = "GET" /\ req.path = "/portfolio"

IsPostPortfolio == req.method = "POST" /\ req.path = "/portfolio"

RateLimitBody == [message |-> "Rate limit exceeded. Please try again later."]

\* a request was handled in this step (the clock leaves req and resp alone)
Handled == <<req, resp>>' # <<req, resp>>

\* C1: the request that makes a client's count in the current window of
\* GET /portfolio exceed 5, or of POST /portfolio exceed 10, is answered 429
\* with the rate-limit message, and the route function's body is not run.
C1_LimitEnforced ==
    /\ (IsGetPortfolio /\ resp.hits > 5) =>
          (resp.status = 429 /\ resp.body = RateLimitBody /\ ~resp.ran)
    /\ (IsPostPortfolio /\ resp.hits > 10) =>
          (resp.status = 429 /\ resp.body = RateLimitBody /\ ~resp.ran)

\* the 11th POST of a client is answered 429 while its GET quota is used up too
C1_Witness ==
    /\ IsPostPortfolio /\ resp.status = 429 /\ resp.hits = 11
    /\ store[LimitKey(req.client, "/portfolio", GetLimit)].count = 6

\* C2: a request of one client leaves every counter of every other client
\* unchanged; a client's own request to a limited route raises that route's
\* counter by exactly one; and a 429 is sent only to a client whose own
\* counter had already reached the route's limit.
C2_PerClientCounters ==
    [][Handled =>
        /\ \A a \in Clients \ {req'.client} : \A n \in {GetLimit, PostLimit} :
              store'[LimitKey(a, "/portfolio", n)] = store[LimitKey(a, "/portfolio", n)]
        /\ \A n \in {GetLimit, PostLimit} :
              LET k == LimitKey(req'.client, "/portfolio", n) IN
              \/ store'[k] = store[k]
              \/ store'[k].count = StorageGet(store, k) + 1
        /\ resp'.status = 429 =>
              LET n == IF req'.method = "GET" THEN GetLimit ELSE PostLimit IN
              StorageGet(store, LimitKey(req'.client, "/portfolio", n)) >= n
      ]_vars

\* the first client is served its first GET while the second is over both limits
C2_Witness ==
    /\ IsGetPortfolio /\ req.client = "10.0.0.1"
    /\ resp.status = 200 /\ resp.hits = 1
    /\ store[LimitKey("10.0.0.2", "/portfolio", GetLimit)].count > GetLimit
    /\ store[LimitKey("10.0.0.2", "/portfolio", PostLimit)].count > PostLimit

\* the User-Agent holds "bot" in some letter case
HasBotSubstring(ua) ==
    /\ ua # None
    /\ \E i \in 1..(Len(ua.val) - 2) :
          /\ ua.val[i] \in {"b", "B"}
          /\ ua.val[i + 1] \in {"o", "O"}
          /\ ua.val[i + 2] \in {"t", "T"}

\* C4: an admitted GET /portfolio is answered 403 "Bots are not allowed"
\* exactly when its User-Agent holds "bot" in some letter case; with no
\* User-Agent or one without "bot" it is answered 200 with the envelope.
C4_BotBlocked ==
    (IsGetPortfolio /\ resp.status # 429) =>
        IF HasBotSubstring(req.ua)
        THEN resp.status = 403 /\ resp.body = [detail |-> "Bots are not allowed"]
        ELSE resp.status = 200 /\ DOMAIN resp.body = {"message", "data"}

\* a mixed-case "bot" inside a longer User-Agent is refused
C4_Witness ==
    /\ IsGetPortfolio /\ resp.status = 403
    /\ req.ua = Str(<<"-", "B", "o", "T">>)

\* a required field of the body is absent or the empty string
RequiredAbsent(b) ==
    \E f \in {"name", "school", "major"} : b[f] = None \/ b[f] = Str(Empty)

\* C5: an admitted POST /portfolio is answered 400 with the required-fields
\* message exactly when name, school or major is absent or empty; otherwise
\* 200 with the seven fields as submitted, an absent one echoed as null.
C5_PostValidation ==
    (IsPostPortfolio /\ resp.status \notin {422, 429}) =>
        IF RequiredAbsent(req.body)
        THEN /\ resp.status = 400
             /\ resp.body = [detail |-> "Name, school, and major are required fields."]
        ELSE /\ resp.status = 200
             /\ DOMAIN resp.body = {"message", "data"}
             /\ DOMAIN resp.body.data =
                   {"name", "school", "major", "minor", "hobbies", "linkedin", "github"}
             /\ \A f \in DOMAIN resp.body.data : resp.body.data[f] = req.body[f]

\* a valid body without minor, hobbies and github is echoed with nulls
C5_Witness ==
    /\ IsPostPortfolio /\ resp.status = 200
    /\ req.body.minor = None /\ resp.body.data.minor = None
    /\ req.body.hobbies = None /\ resp.body.data.hobbies = None
    /\ req.body.github = None /\ resp.body.data.github = None
    /\ req.body.linkedin = Str(Empty) /\ resp.body.data.linkedin = Str(Empty)

\* C6: every error response (400, 403, 429, 500) has a body whose only key
\* is "message".
C6_UniformEnvelope ==
    resp.status \in {400, 403, 429, 500} => DOMAIN resp.body = {"message"}

\* C7: GET /, GET /v1/portfolio and GET /v2/portfolio are answered 307 to
\* /portfolio and their two constant 200 bodies in every state, never 429
\* or 403, and handling them leaves every rate-limit counter unchanged.
C7_UnlimitedRoutes ==
    /\ [](/\ req.path = "/" =>
                /\ resp.status = 307
                /\ <<"location", "/portfolio">> \in resp.headers
          /\ req.path = "/v1/portfolio" =>
                /\ resp.status = 200
                /\ resp.body = [message |-> "API Version 1"]
          /\ req.path = "/v2/portfolio" =>
                /\ resp.status = 200
                /\ resp.body = [message |-> "API Version 2 with improved features!"])
    /\ [][(Handled /\ req'.path \in {"/", "/v1/portfolio", "/v2/portfolio"}) =>
             store' = store]_vars

\* /v1/portfolio is served to a bot User-Agent of a client over both limits
C7_Witness ==
    /\ req.path = "/v1/portfolio" /\ req.ua = Bot /\ resp.status = 200
    /\ store[LimitKey(req.client, "/portfolio", GetLimit)].count > GetLimit
    /\ store[LimitKey(req.client, "/portfolio", PostLimit)].count > PostLimit

\* the number of commas of s
RECURSIVE Commas(_)
Commas(s) ==
    IF s = Empty THEN 0
    ELSE (IF Head(s) = "," THEN 1 ELSE 0) + Commas(Tail(s))

\* l is s cut at every comma: comma-free pieces, one more than the commas,
\* that joined by "," give s back
IsSplitOf(l, s) ==
    /\ Len(l) = Commas(s) + 1
    /\ \A i \in DOMAIN l : \A j \in DOMAIN l[i] : l[i][j] # ","
    /\ Join(l) = s

RobotsHeader == <<"X-Robots-Tag", "noindex, nofollow">>

\* C8 as stated: every field is the query value, or its placeholder when the
\* parameter is missing; hobbies is the split of the string when present.
C8_AsStated ==
    (IsGetPortfolio /\ resp.status = 200) =>
        LET q == req.query
            d == resp.body.data
            Default(x, p) == IF x = None THEN Str(p) ELSE x
        IN  /\ d.name = Default(q.name, Anonymous)
            /\ d.school = Default(q.school, NotSpecified)
            /\ d.major = Default(q.major, NotSpecified)
            /\ d.minor = Default(q.minor, NotSpecified)
            /\ d.linkedin = Default(q.linkedin, NotProvided)
            /\ d.github = Default(q.github, NotProvided)
            /\ d.hobbies.tag = "list"
            /\ IF q.hobbies = None THEN d.hobbies.val = Empty
               ELSE IsSplitOf(d.hobbies.val, q.hobbies.val)
            /\ RobotsHeader \in resp.headers

\* C8: every field is the query value, or its placeholder when the parameter
\* is missing or the empty string; hobbies is the empty sequence when the
\* parameter is missing or empty, else the string cut at every comma, in
\* order and untrimmed; the response carries X-Robots-Tag: noindex, nofollow.
C8_GetData ==
    (IsGetPortfolio /\ resp.status = 200) =>
        LET q == req.query
            d == resp.body.data
            Default(x, p) == IF x = None \/ x = Str(Empty) THEN Str(p) ELSE x
        IN  /\ d.name = Default(q.name, Anonymous)
            /\ d.school = Default(q.school, NotSpecified)
            /\ d.major = Default(q.major, NotSpecified)
            /\ d.minor = Default(q.minor, NotSpecified)
            /\ d.linkedin = Default(q.linkedin, NotProvided)
            /\ d.github = Default(q.github, NotProvided)
            /\ d.hobbies.tag = "list"
            /\ IF q.hobbies = None \/ q.hobbies = Str(Empty)
               THEN d.hobbies.val = Empty
               ELSE IsSplitOf(d.hobbies.val, q.hobbies.val)
            /\ RobotsHeader \in resp.headers

\* an empty name gets the placeholder and "a, " is cut into "a" and " "
C8_Witness ==
    /\ IsGetPortfolio /\ resp.status = 200
    /\ req.query.name = Str(Empty) /\ resp.body.data.name = Str(Anonymous)
    /\ req.query.hobbies = Str(<<"a", ",", " ">>)
    /\ resp.body.data.hobbies = List(<<(<<"a">>), (<<" ">>)>>)

\* C9: the limiter runs before the route function: a 403 or 400 is sent only
\* to a request that was counted against the client's quota, a request over
\* the limit is answered 429 even with a bot User-Agent or a missing field.
C9_LimitBeforeBody ==
    /\ [](/\ (IsGetPortfolio /\ HasBotSubstring(req.ua) /\ resp.hits > 5) =>
                resp.status = 429
          /\ (IsPostPortfolio /\ resp.status # 422 /\ RequiredAbsent(req.body)
                /\ resp.hits > 10) => resp.status = 429
          /\ resp.status = 403 => resp.hits \in 1..5
          /\ resp.status = 400 => resp.hits \in 1..10)
    /\ [][(Handled /\ resp'.status \in {400, 403}) =>
             LET n == IF req'.method = "GET" THEN GetLimit ELSE PostLimit
                 k == LimitKey(req'.client, "/portfolio", n)
             IN  /\ store'[k].count = StorageGet(store, k) + 1
                 /\ resp'.hits = store'[k].count]_vars

\* a bot request beyond the limit gets 429, not 403
C9_Witness ==
    /\ IsGetPortfolio /\ req.ua = Bot /\ resp.status = 429 /\ resp.hits = 6

Rejected(c, method) ==
    req.client = c /\ req.method = method /\ req.path = "/portfolio"
    /\ resp.status = 429

Admitted(c, method) ==
    req.client = c /\ req.method = method /\ req.path = "/portfolio"
    /\ resp.status = 200

\* C10: no counter outlives the minute that started with its first hit, the
\* first request of a new window is admitted, and a client that was answered
\* 429 on a route is later admitted there.
C10_WindowExpires ==
    /\ [](\A k \in Keys : store[k].ttl > 0 => windowAge[k] < 60)
    /\ []((resp.hits = 1) => resp.status # 429)
    /\ \A r \in LiveRequests : Rejected(r[1], r[2]) ~> Admitted(r[1], r[2])

\* a request is admitted right after the same client's 429 on that route
C10_Witness == resp.retry /\ resp.status = 200 /\ resp.hits = 1

====
